---- MODULE Spec2Model ----
(***************************************************************************)
(* BhashaVox AI: the conversation memory (memory.py), the analytics        *)
(* tracker (analytics.py), the prompt builder (prompts.py), the engine     *)
(* that orchestrates them (ai_engine.py) and the HTTP API over the one     *)
(* engine of the process (main.py).                                        *)
(*                                                                         *)
(* Text.  A Python str is modelled as a sequence of symbols.  A symbol is  *)
(* one character; a run of characters that overlaps none of the patterns   *)
(* the code searches for (the two correction markers, the three level      *)
(* names) may be written as one opaque symbol.  Substring search, lower()  *)
(* and strip() work on these sequences as the Python operations work on    *)
(* characters.                                                             *)
(*                                                                         *)
(* Numbers.  A float percentage is modelled by the integer number of       *)
(* hundredths it stands for (100.0 is 10000); round(x, 2) is rounding of   *)
(* the exact quotient to the nearest hundredth, ties to even.              *)
(*                                                                         *)
(* Time.  The datetime fields (session_start, a mistake's timestamp) are   *)
(* not modelled.                                                           *)
(***************************************************************************)
EXTENDS Integers, Sequences, FiniteSets, TLC

VARIABLES
    memory,      \* ConversationMemory: max_history, history, user_level
    analytics,   \* AnalyticsTracker: mistakes, corrections_made,
                 \*   total_messages, mistake_categories
    posts,       \* number of POSTs made to the Ollama generate endpoint
    last_call,   \* the engine's last completed call: its name, its argument,
                 \*   what the POST it made ended in, and how it ended
    appended,    \* the messages given to add_message since the history
                 \*   was last empty by construction or clear_history
    pc,          \* the line of ai_engine.py an in-flight chat call is to
                 \*   execute next ("idle" if no chat call is in flight)
    frame,       \* the local variables of the in-flight chat call, and
                 \*   what its POST ended in
    tasks,       \* the requests the API server has accepted: for each its
                 \*   endpoint, how far its handler has got, the handler's
                 \*   local variables and its response
    running      \* the request whose handler the event loop is executing
                 \*   (0 if none)

vars == <<memory, analytics, posts, last_call, appended, pc, frame,
          tasks, running>>

---------------------------------------------------------------------------
(* Bounds of the model *)

\* largest max_history a ConversationMemory is constructed with
MaxHistoryBound == 2
\* most POSTs to the model server in one run (chat and assess_level calls)
MaxPosts == 3
\* most log_message calls on a bare AnalyticsTracker
MaxMessages == 3
\* most mistake records held by a bare AnalyticsTracker
MaxMistakes == 3
\* largest top_n given to get_common_mistakes
MaxTopN == 3
\* chat calls in a long session of the engine
MaxLongChats == 12
\* requests the API server accepts in one run
MaxRequests == 2

\* most add_message calls on a bare ConversationMemory: enough to overflow
\* the largest history
MaxAppends == 2 * MaxHistoryBound + 1

---------------------------------------------------------------------------
(* Python sequence operations *)

Min(a, b) == IF a < b THEN a ELSE b
Max(a, b) == IF a > b THEN a ELSE b

\* s[start:] with Python's index normalisation
SliceFrom(s, start) ==
    LET n == Len(s)
        i == IF start < 0 THEN Max(start + n, 0) ELSE Min(start, n)
    IN  SubSeq(s, i + 1, n)

\* s[:stop] with Python's index normalisation
SliceTo(s, stop) ==
    LET n == Len(s)
        j == IF stop < 0 THEN Max(stop + n, 0) ELSE Min(stop, n)
    IN  SubSeq(s, 1, j)

\* pat in s, for two str
Contains(s, pat) ==
    \E i \in 1..(Len(s) - Len(pat) + 1) :
        SubSeq(s, i, i + Len(pat) - 1) = pat

---------------------------------------------------------------------------
(* memory.py: ConversationMemory *)

\* Python's None in a field that otherwise holds a str
NONE == <<"None">>

DEFAULT_MAX_HISTORY == 10

ConversationMemory(max_history) ==
    [max_history |-> max_history, history |-> <<>>, user_level |-> NONE]

\* mutant: max_history counts messages, not exchanges
add_message_caps_messages(m, role, message) ==
    LET h == Append(m.history, [role |-> role, message |-> message])
    IN  [m EXCEPT !.history =
            IF Len(h) > m.max_history
            THEN SliceFrom(h, -(m.max_history))
            ELSE h]

add_message(m, role, message) ==
    LET h == Append(m.history, [role |-> role, message |-> message])
    IN  [m EXCEPT !.history =
            IF Len(h) > m.max_history * 2
            THEN SliceFrom(h, -(m.max_history * 2))
            ELSE h]

set_user_level(m, level) == [m EXCEPT !.user_level = level]

get_user_level(m) == m.user_level

\* mutant: the level is forgotten with the history
clear_history_resets_level(m) ==
    [m EXCEPT !.history = <<>>, !.user_level = NONE]

clear_history(m) == [m EXCEPT !.history = <<>>]

RECURSIVE CountUser(_)
CountUser(h) ==
    IF h = <<>> THEN 0
    ELSE (IF h[1].role = "user" THEN 1 ELSE 0) + CountUser(Tail(h))

get_conversation_count(m) == CountUser(m.history)

---------------------------------------------------------------------------
(* analytics.py: AnalyticsTracker *)

\* mistake_categories is a defaultdict(int): a dict keeps its keys in the
\* order of their first insertion, so it is a sequence of entries here.
AnalyticsTracker ==
    [mistakes |-> <<>>, corrections_made |-> 0, total_messages |-> 0,
     mistake_categories |-> <<>>]

\* d[category] += 1 on a defaultdict(int)
Increment(d, category) ==
    IF \E i \in 1..Len(d) : d[i].category = category
    THEN [i \in 1..Len(d) |->
            IF d[i].category = category
            THEN [d[i] EXCEPT !.count = @ + 1]
            ELSE d[i]]
    ELSE Append(d, [category |-> category, count |-> 1])

log_mistake(a, original, corrected, category) ==
    [a EXCEPT
        !.mistakes = Append(@, [original |-> original,
                                corrected |-> corrected,
                                category |-> category]),
        !.corrections_made = @ + 1,
        !.mistake_categories = Increment(@, category)]

log_message(a) == [a EXCEPT !.total_messages = @ + 1]

\* n / d rounded to the nearest integer, ties to the even one (d > 0)
RoundHalfEven(n, d) ==
    LET q == n \div d
        r == n % d
    IN  IF 2 * r < d THEN q
        ELSE IF 2 * r > d THEN q + 1
        ELSE IF q % 2 = 0 THEN q ELSE q + 1

\* round(x, 2) of the percentage 100 * n / d, in hundredths
Round2(n, d) == RoundHalfEven(10000 * n, d)

\* mutant: mistakes on the same original text counted once
get_accuracy_rate_deduplicated(a) ==
    IF a.total_messages = 0 THEN 10000
    ELSE LET messages_with_mistakes ==
                 Cardinality({a.mistakes[i].original :
                                 i \in 1..Len(a.mistakes)})
         IN  Round2(a.total_messages - messages_with_mistakes,
                    a.total_messages)

get_accuracy_rate(a) ==
    IF a.total_messages = 0 THEN 10000
    ELSE LET messages_with_mistakes == Len(a.mistakes)
         IN  Round2(a.total_messages - messages_with_mistakes,
                    a.total_messages)

\* mutant: an entry goes before the entries of equal count (an ascending
\* sort read backwards)
InsertDescUnstable(sorted, e) ==
    LET k == Cardinality({i \in 1..Len(sorted) : sorted[i].count > e.count})
    IN  SubSeq(sorted, 1, k) \o <<e>> \o SubSeq(sorted, k + 1, Len(sorted))

\* one step of sorted(..., key=count, reverse=True): e goes after every
\* entry whose count is at least its own, which keeps equal counts in
\* their original order (the sort is stable, reversed or not)
InsertDesc(sorted, e) ==
    LET k == Cardinality({i \in 1..Len(sorted) : sorted[i].count >= e.count})
    IN  SubSeq(sorted, 1, k) \o <<e>> \o SubSeq(sorted, k + 1, Len(sorted))

RECURSIVE SortedDesc(_)
SortedDesc(items) ==
    IF items = <<>> THEN <<>>
    ELSE InsertDesc(SortedDesc(SubSeq(items, 1, Len(items) - 1)),
                    items[Len(items)])

get_common_mistakes(a, top_n) ==
    LET sorted_categories == SortedDesc(a.mistake_categories)
    IN  SliceTo(sorted_categories, top_n)

DEFAULT_TOP_N == 5

get_session_summary(a) ==
    [total_messages |-> a.total_messages,
     corrections_made |-> a.corrections_made,
     accuracy_rate |-> get_accuracy_rate(a),
     common_mistakes |-> get_common_mistakes(a, DEFAULT_TOP_N),
     total_mistake_types |-> Len(a.mistake_categories)]

\* mutant: the per-category counts survive the reset
analytics_reset_session_keeps_categories(a) ==
    [a EXCEPT !.mistakes = <<>>, !.corrections_made = 0,
              !.total_messages = 0]

analytics_reset_session(a) ==
    [a EXCEPT !.mistakes = <<>>, !.corrections_made = 0,
              !.total_messages = 0, !.mistake_categories = <<>>]

---------------------------------------------------------------------------
(* Python str operations *)

UpperCase == <<"A", "B", "C", "D", "E", "F", "G", "H", "I", "J", "K", "L",
               "M", "N", "O", "P", "Q", "R", "S", "T", "U", "V", "W", "X",
               "Y", "Z">>
LowerCase == <<"a", "b", "c", "d", "e", "f", "g", "h", "i", "j", "k", "l",
               "m", "n", "o", "p", "q", "r", "s", "t", "u", "v", "w", "x",
               "y", "z">>

LowerChar(c) ==
    IF \E i \in 1..Len(UpperCase) : UpperCase[i] = c
    THEN LowerCase[CHOOSE i \in 1..Len(UpperCase) : UpperCase[i] = c]
    ELSE c

\* s.lower()
lower(s) == [i \in 1..Len(s) |-> LowerChar(s[i])]

Whitespace == {" ", "\n", "\t"}

\* s.strip()
strip(s) ==
    LET keep == {i \in 1..Len(s) : s[i] \notin Whitespace}
    IN  IF keep = {} THEN <<>>
        ELSE SubSeq(s, CHOOSE i \in keep : \A j \in keep : i <= j,
                       CHOOSE i \in keep : \A j \in keep : i >= j)

Digits == <<"0", "1", "2", "3", "4", "5", "6", "7", "8", "9">>

\* str(n) for an int n >= 0
RECURSIVE str(_)
str(n) ==
    IF n < 10 THEN <<Digits[n + 1]>>
    ELSE str(n \div 10) \o <<Digits[(n % 10) + 1]>>

---------------------------------------------------------------------------
(* prompts.py *)

\* the system prompt, one opaque symbol: it is sent, never searched
SYSTEM_PROMPT == <<"SYSTEM_PROMPT">>

create_conversation_prompt(user_message, conversation_history) ==
    LET p1 == SYSTEM_PROMPT \o <<"\n", "\n">>
        p2 == IF conversation_history # <<>>
              THEN p1 \o <<"Previous conversation:", "\n">>
                      \o conversation_history \o <<"\n", "\n">>
              ELSE p1
    IN  p2 \o <<"User", ":", " ">> \o user_message
           \o <<"\n", "\n", "BhashaVox AI:">>

create_level_assessment_prompt(user_message) ==
    <<"Based on this message, assess ... User message: ", "\"">>
        \o user_message
        \o <<"\"", "\n", "\n",
             "Respond with only: Beginner, Intermediate, or Advanced">>

---------------------------------------------------------------------------
(* memory.py: get_history_string *)

\* mutant: the newest message comes first
RECURSIVE HistoryLinesNewestFirst(_)
HistoryLinesNewestFirst(h) ==
    IF h = <<>> THEN <<>>
    ELSE LET msg == h[1]
             role_name == IF msg.role = "user" THEN "User"
                          ELSE "BhashaVox AI"
         IN  HistoryLinesNewestFirst(Tail(h))
                 \o <<role_name, ":", " ">> \o msg.message \o <<"\n">>

\* the for loop of get_history_string over h: one line for each message,
\* each ended by a newline
RECURSIVE HistoryLines(_)
HistoryLines(h) ==
    IF h = <<>> THEN <<>>
    ELSE LET msg == h[1]
             role_name == IF msg.role = "user" THEN "User"
                          ELSE "BhashaVox AI"
         IN  <<role_name, ":", " ">> \o msg.message \o <<"\n">>
                 \o HistoryLines(Tail(h))

get_history_string(m) ==
    IF m.history = <<>> THEN <<>> ELSE HistoryLines(m.history)

---------------------------------------------------------------------------
(* ai_engine.py: BhashaVoxEngine *)

CHECK_MARK == <<"U+2705">>
CORRECTED == <<"C", "o", "r", "r", "e", "c", "t", "e", "d", ":">>

Beginner == <<"B", "e", "g", "i", "n", "n", "e", "r">>
Intermediate == <<"I", "n", "t", "e", "r", "m", "e", "d", "i", "a", "t", "e">>
Advanced == <<"A", "d", "v", "a", "n", "c", "e", "d">>

valid_levels == <<Beginner, Intermediate, Advanced>>

HTTP_OK == 200

\* What one requests.post to /api/generate ends in.  kind "response": an
\* HTTP response with status_code and, for 200, the JSON field "response"
\* in text.  kind "ConnectionError", "Timeout": those exceptions.  kind
\* "Exception": any other exception (a body that is not the expected
\* JSON included), str(e) in text.
Outcome(kind, status_code, text) ==
    [kind |-> kind, status_code |-> status_code, text |-> text]

NoOutcome == Outcome("none", 0, <<>>)

\* How a call ends: it returns value, or it raises (value is then the
\* text of the exception).
Returns(value) == [raised |-> FALSE, value |-> value]
Raises(value) == [raised |-> TRUE, value |-> value]

\* mutant: the last handler, except Exception, is missing
call_ollama_uncaught(outcome) ==
    CASE outcome.kind = "response" ->
            IF outcome.status_code = HTTP_OK
            THEN Returns(outcome.text)
            ELSE Returns(<<"Error: Ollama returned status code ">>
                             \o str(outcome.status_code))
      [] outcome.kind = "ConnectionError" ->
            Returns(<<"Error: Cannot connect to Ollama. Make sure Ollama is running (ollama serve)">>)
      [] outcome.kind = "Timeout" ->
            Returns(<<"Error: Request timed out. The model might be loading.">>)
      [] OTHER ->
            Raises(outcome.text)

call_ollama(outcome) ==
    CASE outcome.kind = "response" ->
            IF outcome.status_code = HTTP_OK
            THEN Returns(outcome.text)
            ELSE Returns(<<"Error: Ollama returned status code ">>
                             \o str(outcome.status_code))
      [] outcome.kind = "ConnectionError" ->
            Returns(<<"Error: Cannot connect to Ollama. Make sure Ollama is running (ollama serve)">>)
      [] outcome.kind = "Timeout" ->
            Returns(<<"Error: Request timed out. The model might be loading.">>)
      [] OTHER ->
            Returns(<<"Error: ">> \o outcome.text)

\* mutant: only the check mark is looked for
correction_detected_check_mark_only(ai_response) ==
    Contains(ai_response, CHECK_MARK)

\* "U+2705" in ai_response or "Corrected:" in ai_response
correction_detected(ai_response) ==
    Contains(ai_response, CHECK_MARK) \/ Contains(ai_response, CORRECTED)

\* mutant: a message that gets a correction is not counted as a message
chat_counts_uncorrected_only(m, a, user_message, outcome) ==
    LET m1 == add_message(m, "user", user_message)
        history == get_history_string(m1)
        prompt == create_conversation_prompt(user_message, history)
        call == call_ollama(outcome)
        ai_response == call.value
        m2 == add_message(m1, "assistant", ai_response)
        a2 == IF correction_detected(ai_response)
              THEN log_mistake(a, user_message, ai_response, <<"grammar">>)
              ELSE log_message(a)
    IN  IF call.raised
        THEN [memory |-> m1, analytics |-> a, posted |-> <<prompt>>,
              raised |-> TRUE, ret |-> call.value]
        ELSE [memory |-> m2, analytics |-> a2, posted |-> <<prompt>>,
              raised |-> FALSE, ret |-> ai_response]

\* mutant: the markers are looked for in the user's message as well
chat_detects_in_user_message(m, a, user_message, outcome) ==
    LET a1 == log_message(a)
        m1 == add_message(m, "user", user_message)
        history == get_history_string(m1)
        prompt == create_conversation_prompt(user_message, history)
        call == call_ollama(outcome)
        ai_response == call.value
        m2 == add_message(m1, "assistant", ai_response)
        a2 == IF \/ correction_detected(ai_response)
                 \/ correction_detected(user_message)
              THEN log_mistake(a1, user_message, ai_response,
                               <<"grammar">>)
              ELSE a1
    IN  IF call.raised
        THEN [memory |-> m1, analytics |-> a1, posted |-> <<prompt>>,
              raised |-> TRUE, ret |-> call.value]
        ELSE [memory |-> m2, analytics |-> a2, posted |-> <<prompt>>,
              raised |-> FALSE, ret |-> ai_response]

\* the whole of chat: the engine's memory and analytics after the call,
\* the prompts it POSTed, and the text it returns; an exception out of
\* call_ollama would leave chat where it stands
chat(m, a, user_message, outcome) ==
    LET a1 == log_message(a)
        m1 == add_message(m, "user", user_message)
        history == get_history_string(m1)
        prompt == create_conversation_prompt(user_message, history)
        call == call_ollama(outcome)
        ai_response == call.value
        m2 == add_message(m1, "assistant", ai_response)
        a2 == IF correction_detected(ai_response)
              THEN log_mistake(a1, user_message, ai_response,
                               <<"grammar">>)
              ELSE a1
    IN  IF call.raised
        THEN [memory |-> m1, analytics |-> a1, posted |-> <<prompt>>,
              raised |-> TRUE, ret |-> call.value]
        ELSE [memory |-> m2, analytics |-> a2, posted |-> <<prompt>>,
              raised |-> FALSE, ret |-> ai_response]

\* the for loop of assess_level from valid_levels[i] on: the index of the
\* first level name that occurs in level, 0 if the loop falls through
\* mutant: the comparison without lower()
RECURSIVE first_valid_level_case_sensitive(_, _)
first_valid_level_case_sensitive(level, i) ==
    IF i > Len(valid_levels) THEN 0
    ELSE IF Contains(level, valid_levels[i]) THEN i
    ELSE first_valid_level_case_sensitive(level, i + 1)

RECURSIVE first_valid_level(_, _)
first_valid_level(level, i) ==
    IF i > Len(valid_levels) THEN 0
    ELSE IF Contains(lower(level), lower(valid_levels[i])) THEN i
    ELSE first_valid_level(level, i + 1)

\* mutant: the response itself is stored, not the name it matched
assess_level_stores_response(m, user_message, outcome) ==
    LET prompt == create_level_assessment_prompt(user_message)
        call == call_ollama(outcome)
        level == strip(call.value)
        i == first_valid_level(level, 1)
    IN  IF call.raised
        THEN [memory |-> m, posted |-> <<prompt>>,
              raised |-> TRUE, ret |-> call.value]
        ELSE IF i # 0
        THEN [memory |-> set_user_level(m, level),
              posted |-> <<prompt>>, raised |-> FALSE,
              ret |-> valid_levels[i]]
        ELSE [memory |-> m, posted |-> <<prompt>>, raised |-> FALSE,
              ret |-> Intermediate]

assess_level(m, user_message, outcome) ==
    LET prompt == create_level_assessment_prompt(user_message)
        call == call_ollama(outcome)
        level == strip(call.value)
        i == first_valid_level(level, 1)
    IN  IF call.raised
        THEN [memory |-> m, posted |-> <<prompt>>,
              raised |-> TRUE, ret |-> call.value]
        ELSE IF i # 0
        THEN [memory |-> set_user_level(m, valid_levels[i]),
              posted |-> <<prompt>>, raised |-> FALSE,
              ret |-> valid_levels[i]]
        ELSE [memory |-> m, posted |-> <<prompt>>, raised |-> FALSE,
              ret |-> Intermediate]

get_stats(m, a) ==
    LET stats == get_session_summary(a)
    IN  [total_messages |-> stats.total_messages,
         corrections_made |-> stats.corrections_made,
         accuracy_rate |-> stats.accuracy_rate,
         common_mistakes |-> stats.common_mistakes,
         total_mistake_types |-> stats.total_mistake_types,
         conversation_turns |-> get_conversation_count(m),
         user_level |-> get_user_level(m)]

\* mutant: the history is not cleared
reset_session_keeps_history(m, a) ==
    [memory |-> m, analytics |-> analytics_reset_session(a),
     ret |-> <<"Session reset successfully!">>]

reset_session(m, a) ==
    [memory |-> clear_history(m), analytics |-> analytics_reset_session(a),
     ret |-> <<"Session reset successfully!">>]

---------------------------------------------------------------------------
(* Inputs *)

Roles == {"user", "assistant"}

\* message texts given to a bare ConversationMemory
MemMessages == {<<"a">>, <<"b">>}

\* mistake categories, originals and corrections given to a bare
\* AnalyticsTracker
Categories == {<<"grammar">>, <<"vocabulary">>, <<"spelling">>}
Originals == {<<"I goed">>, <<"he go">>}
Corrections == {<<"fixed">>}

\* user messages given to the engine: one plain, one that itself holds
\* the text "Corrected:"
UserMessages == {<<"h", "i">>, CORRECTED \o <<"?">>}

\* sample messages given to assess_level
SampleMessages == {<<"h", "i">>}

\* model responses to a chat prompt: no marker; the check mark; the text
\* "Corrected:"; the same word in lower case, which is no marker
ChatResponses ==
    {<<"o", "k">>,
     CHECK_MARK \o <<" ", "o", "k">>,
     <<"*", "*">> \o CORRECTED \o <<"*", "*">>,
     lower(CORRECTED)}

\* model responses to a level-assessment prompt
AssessResponses ==
    {<<"This is definitely ">> \o Beginner \o <<" level writing">>,
     <<" ">> \o Intermediate \o <<"\n">>,
     <<"A", "D", "V", "A", "N", "C", "E", "D">>,
     lower(Advanced) \o <<",", " ", "n", "o", "t", " ">> \o lower(Beginner),
     <<"Unclear / gibberish">>}

Failures ==
    {Outcome("response", 500, <<>>),
     Outcome("ConnectionError", 0, <<>>),
     Outcome("Timeout", 0, <<>>),
     Outcome("Exception", 0, <<"'response'">>)}

ChatOutcomes ==
    {Outcome("response", HTTP_OK, r) : r \in ChatResponses} \cup Failures

AssessOutcomes ==
    {Outcome("response", HTTP_OK, r) : r \in AssessResponses}
        \cup {Outcome("Timeout", 0, <<>>)}

---------------------------------------------------------------------------
(* State machines *)

Call(op, arg, outcome, raised, ret) ==
    [op |-> op, arg |-> arg, outcome |-> outcome, raised |-> raised,
     ret |-> ret]

NoFrame ==
    [user_message |-> <<>>, history |-> <<>>, prompt |-> <<>>,
     outcome |-> NoOutcome, ai_response |-> <<>>]

\* the requests of a run, and a request the server has not yet seen
RequestIds == 1..MaxRequests
NoResponse == [status_code |-> 0, body |-> <<>>]
NoTask ==
    [state |-> "absent", endpoint |-> "", pc |-> "", frame |-> NoFrame,
     response |-> NoResponse]

InitRest ==
    /\ posts = 0
    /\ last_call = Call("init", <<>>, NoOutcome, FALSE, <<>>)
    /\ appended = <<>>
    /\ pc = "idle"
    /\ frame = NoFrame
    /\ tasks = [t \in RequestIds |-> NoTask]
    /\ running = 0

(* A bare ConversationMemory *)

InitMemory ==
    /\ \E max_history \in 0..MaxHistoryBound :
          memory = ConversationMemory(max_history)
    /\ analytics = AnalyticsTracker
    /\ InitRest

AddMessage ==
    \E role \in Roles, message \in MemMessages :
        /\ Len(appended) < MaxAppends
        /\ memory' = add_message(memory, role, message)
        /\ appended' = Append(appended, [role |-> role, message |-> message])
        /\ UNCHANGED <<analytics, posts, last_call, pc, frame,
                       tasks, running>>

ClearHistory ==
    /\ memory' = clear_history(memory)
    /\ appended' = <<>>
    /\ UNCHANGED <<analytics, posts, last_call, pc, frame, tasks, running>>

SetUserLevel ==
    \E i \in 1..Len(valid_levels) :
        /\ memory' = set_user_level(memory, valid_levels[i])
        /\ UNCHANGED <<analytics, posts, last_call, appended, pc, frame,
                       tasks, running>>

NextMemory == AddMessage \/ ClearHistory \/ SetUserLevel

SpecMemory == InitMemory /\ [][NextMemory]_vars

(* A bare AnalyticsTracker *)

InitAnalytics ==
    /\ memory = ConversationMemory(DEFAULT_MAX_HISTORY)
    /\ analytics = AnalyticsTracker
    /\ InitRest

LogMessage ==
    /\ analytics.total_messages < MaxMessages
    /\ analytics' = log_message(analytics)
    /\ UNCHANGED <<memory, posts, last_call, appended, pc, frame,
                   tasks, running>>

LogMistake ==
    \E original \in Originals, corrected \in Corrections,
       category \in Categories :
        /\ Len(analytics.mistakes) < MaxMistakes
        /\ analytics' = log_mistake(analytics, original, corrected, category)
        /\ UNCHANGED <<memory, posts, last_call, appended, pc, frame,
                       tasks, running>>

ResetAnalytics ==
    /\ analytics' = analytics_reset_session(analytics)
    /\ UNCHANGED <<memory, posts, last_call, appended, pc, frame,
                   tasks, running>>

NextAnalytics == LogMessage \/ LogMistake \/ ResetAnalytics

SpecAnalytics == InitAnalytics /\ [][NextAnalytics]_vars

(* The engine, one whole handler a step *)

Init ==
    /\ memory = ConversationMemory(DEFAULT_MAX_HISTORY)
    /\ analytics = AnalyticsTracker
    /\ InitRest

Chat ==
    \E user_message \in UserMessages, outcome \in ChatOutcomes :
        LET r == chat(memory, analytics, user_message, outcome)
        IN  /\ pc = "idle"
            /\ posts < MaxPosts
            /\ memory' = r.memory
            /\ analytics' = r.analytics
            /\ posts' = posts + Len(r.posted)
            /\ last_call' = Call("chat", user_message, outcome, r.raised,
                                 r.ret)
            /\ appended' = appended
                   \o <<[role |-> "user", message |-> user_message]>>
                   \o (IF r.raised THEN <<>>
                       ELSE <<[role |-> "assistant", message |-> r.ret]>>)
            /\ UNCHANGED <<pc, frame, tasks, running>>

AssessLevel ==
    \E user_message \in SampleMessages, outcome \in AssessOutcomes :
        LET r == assess_level(memory, user_message, outcome)
        IN  /\ pc = "idle"
            /\ posts < MaxPosts
            /\ memory' = r.memory
            /\ posts' = posts + Len(r.posted)
            /\ last_call' = Call("assess_level", user_message, outcome,
                                 r.raised, r.ret)
            /\ UNCHANGED <<analytics, appended, pc, frame, tasks, running>>

GetStats ==
    /\ pc = "idle"
    /\ last_call' = Call("get_stats", <<>>, NoOutcome, FALSE,
                         get_stats(memory, analytics))
    /\ UNCHANGED <<memory, analytics, posts, appended, pc, frame,
                   tasks, running>>

ResetSession ==
    LET r == reset_session(memory, analytics)
    IN  /\ pc = "idle"
        /\ memory' = r.memory
        /\ analytics' = r.analytics
        /\ last_call' = Call("reset_session", <<>>, NoOutcome, FALSE, r.ret)
        /\ appended' = <<>>
        /\ UNCHANGED <<posts, pc, frame, tasks, running>>

Next == Chat \/ AssessLevel \/ GetStats \/ ResetSession

Spec == Init /\ [][Next]_vars

(* The engine, one statement of chat a step.  The callers (the loop of
   test_chat.py, the async handlers of main.py, which never await inside a
   call of the engine) start a call only when the one before has returned. *)

\* user messages and POST outcomes of the chat calls taken statement by
\* statement
StepMessages == {<<"h", "i">>}
StepOutcomes ==
    {Outcome("response", HTTP_OK, <<"o", "k">>),
     Outcome("response", HTTP_OK, CORRECTED \o <<"x">>),
     Outcome("Timeout", 0, <<>>)}

\* line 98: self.analytics.log_message()
ChatLogMessage ==
    \E user_message \in StepMessages :
        /\ pc = "idle"
        /\ posts < MaxPosts
        /\ analytics' = log_message(analytics)
        /\ frame' = [NoFrame EXCEPT !.user_message = user_message]
        /\ pc' = "L101"
        /\ UNCHANGED <<memory, posts, last_call, appended, tasks, running>>

\* line 101: self.memory.add_message("user", user_message)
ChatAddUser ==
    /\ pc = "L101"
    /\ memory' = add_message(memory, "user", frame.user_message)
    /\ appended' = Append(appended, [role |-> "user",
                                     message |-> frame.user_message])
    /\ pc' = "L104"
    /\ UNCHANGED <<analytics, posts, last_call, frame, tasks, running>>

\* mutant: the history is rendered as it was before this call's user
\* turn was appended
ChatGetHistoryBeforeAppend ==
    /\ pc = "L104"
    /\ frame' = [frame EXCEPT !.history =
                    get_history_string(
                        [memory EXCEPT !.history =
                            SubSeq(@, 1, Len(@) - 1)])]
    /\ pc' = "L107"
    /\ UNCHANGED <<memory, analytics, posts, last_call, appended,
                   tasks, running>>

\* line 104: history = self.memory.get_history_string()
ChatGetHistory ==
    /\ pc = "L104"
    /\ frame' = [frame EXCEPT !.history = get_history_string(memory)]
    /\ pc' = "L107"
    /\ UNCHANGED <<memory, analytics, posts, last_call, appended,
                   tasks, running>>

\* line 107: prompt = create_conversation_prompt(user_message, history)
ChatCreatePrompt ==
    /\ pc = "L107"
    /\ frame' = [frame EXCEPT !.prompt =
                    create_conversation_prompt(frame.user_message,
                                               frame.history)]
    /\ pc' = "L110"
    /\ UNCHANGED <<memory, analytics, posts, last_call, appended,
                   tasks, running>>

\* line 110: ai_response = self.call_ollama(prompt)
ChatCallOllama ==
    \E outcome \in StepOutcomes :
        LET call == call_ollama(outcome)
        IN  /\ pc = "L110"
            /\ posts' = posts + 1
            /\ frame' = [frame EXCEPT !.outcome = outcome,
                                      !.ai_response = call.value]
            /\ IF call.raised
               THEN /\ pc' = "idle"
                    /\ last_call' = Call("chat", frame.user_message,
                                         outcome, TRUE, call.value)
               ELSE /\ pc' = "L113"
                    /\ UNCHANGED last_call
            /\ UNCHANGED <<memory, analytics, appended, tasks, running>>

\* line 113: self.memory.add_message("assistant", ai_response)
ChatAddAssistant ==
    /\ pc = "L113"
    /\ memory' = add_message(memory, "assistant", frame.ai_response)
    /\ appended' = Append(appended, [role |-> "assistant",
                                     message |-> frame.ai_response])
    /\ pc' = "L116"
    /\ UNCHANGED <<analytics, posts, last_call, frame, tasks, running>>

\* mutant: the message is counted once more where the mistake is logged
ChatDetectCorrectionCountsAgain ==
    /\ pc = "L116"
    /\ analytics' =
          IF correction_detected(frame.ai_response)
          THEN log_message(log_mistake(analytics, frame.user_message,
                                       frame.ai_response, <<"grammar">>))
          ELSE analytics
    /\ pc' = "L119"
    /\ UNCHANGED <<memory, posts, last_call, appended, frame, tasks, running>>

\* lines 116-117: the correction heuristic and log_mistake
ChatDetectCorrection ==
    /\ pc = "L116"
    /\ analytics' =
          IF correction_detected(frame.ai_response)
          THEN log_mistake(analytics, frame.user_message,
                           frame.ai_response, <<"grammar">>)
          ELSE analytics
    /\ pc' = "L119"
    /\ UNCHANGED <<memory, posts, last_call, appended, frame, tasks, running>>

\* line 119: return ai_response
ChatReturn ==
    /\ pc = "L119"
    /\ last_call' = Call("chat", frame.user_message, frame.outcome, FALSE,
                         frame.ai_response)
    /\ frame' = NoFrame
    /\ pc' = "idle"
    /\ UNCHANGED <<memory, analytics, posts, appended, tasks, running>>

NextSteps ==
    \/ ChatLogMessage
    \/ ChatAddUser
    \/ ChatGetHistory
    \/ ChatCreatePrompt
    \/ ChatCallOllama
    \/ ChatAddAssistant
    \/ ChatDetectCorrection
    \/ ChatReturn
    \/ AssessLevel
    \/ GetStats
    \/ ResetSession

SpecSteps == Init /\ [][NextSteps]_vars

(* The engine in a long session: chat calls past the cap of the history,
   with few inputs *)

LongMessages == {<<"h", "i">>}
LongOutcomes ==
    {Outcome("response", HTTP_OK, <<"o", "k">>),
     Outcome("Timeout", 0, <<>>)}

LongChat ==
    \E user_message \in LongMessages, outcome \in LongOutcomes :
        LET r == chat(memory, analytics, user_message, outcome)
        IN  /\ pc = "idle"
            /\ posts < MaxLongChats
            /\ memory' = r.memory
            /\ analytics' = r.analytics
            /\ posts' = posts + Len(r.posted)
            /\ last_call' = Call("chat", user_message, outcome, r.raised,
                                 r.ret)
            /\ appended' = appended
                   \o <<[role |-> "user", message |-> user_message]>>
                   \o (IF r.raised THEN <<>>
                       ELSE <<[role |-> "assistant", message |-> r.ret]>>)
            /\ UNCHANGED <<pc, frame, tasks, running>>

NextLong == LongChat \/ GetStats \/ ResetSession

SpecLong == Init /\ [][NextLong]_vars

----------------------------------------------------------------------------
(* main.py: the HTTP API over the one engine of the process *)

HTTP_BAD_REQUEST == 400
HTTP_SERVER_ERROR == 500

ChatRequest(message, session_id) ==
    [message |-> message, session_id |-> session_id]
ChatResponse(response, corrections_made, message_count) ==
    [response |-> response, corrections_made |-> corrections_made,
     message_count |-> message_count]
HTTPException(status_code, detail) ==
    [status_code |-> status_code, body |-> detail]
HttpOk(body) == [status_code |-> HTTP_OK, body |-> body]

\* mutant: a request under another session_id than the default is served
\* from a history and a tracker of its own
post_chat_per_session(m, a, request, outcome) ==
    IF strip(request.message) = <<>>
    THEN [memory |-> m, analytics |-> a, posted |-> <<>>,
          response |-> HTTPException(HTTP_BAD_REQUEST,
                                     <<"Message cannot be empty">>)]
    ELSE LET own == request.session_id # <<"default">>
             r == IF own
                  THEN chat(ConversationMemory(DEFAULT_MAX_HISTORY),
                            AnalyticsTracker, request.message, outcome)
                  ELSE chat(m, a, request.message, outcome)
         IN  IF r.raised
             THEN [memory |-> IF own THEN m ELSE r.memory,
                   analytics |-> IF own THEN a ELSE r.analytics,
                   posted |-> r.posted,
                   response |-> HTTPException(HTTP_SERVER_ERROR,
                       <<"Error processing message: ">> \o r.ret)]
             ELSE [memory |-> IF own THEN m ELSE r.memory,
                   analytics |-> IF own THEN a ELSE r.analytics,
                   posted |-> r.posted,
                   response |-> HttpOk(ChatResponse(
                       r.ret, correction_detected(r.ret),
                       get_conversation_count(r.memory)))]

\* the handler of POST /chat on the global engine: the engine's memory
\* and analytics after it, the prompts POSTed to the model, the response
post_chat(m, a, request, outcome) ==
    IF strip(request.message) = <<>>
    THEN [memory |-> m, analytics |-> a, posted |-> <<>>,
          response |-> HTTPException(HTTP_BAD_REQUEST,
                                     <<"Message cannot be empty">>)]
    ELSE LET r == chat(m, a, request.message, outcome)
         IN  IF r.raised
             THEN [memory |-> r.memory, analytics |-> r.analytics,
                   posted |-> r.posted,
                   response |-> HTTPException(HTTP_SERVER_ERROR,
                       <<"Error processing message: ">> \o r.ret)]
             ELSE [memory |-> r.memory, analytics |-> r.analytics,
                   posted |-> r.posted,
                   response |-> HttpOk(ChatResponse(
                       r.ret, correction_detected(r.ret),
                       get_conversation_count(r.memory)))]

\* session_id is Optional[str] with the default "default"
SessionIds == {<<"default">>, <<"learner-2">>, NONE}
HttpMessages == {<<"h", "i">>, <<" ">>}
HttpOutcomes == StepOutcomes

(* The API, one whole handler a step *)

PostChat ==
    \E message \in HttpMessages, session_id \in SessionIds,
       outcome \in HttpOutcomes :
        LET request == ChatRequest(message, session_id)
            r == post_chat(memory, analytics, request, outcome)
            sent == [role |-> "user", message |-> message,
                     session_id |-> session_id]
            answered == IF r.response.status_code = HTTP_OK
                        THEN <<[role |-> "assistant",
                                message |-> r.response.body.response,
                                session_id |-> session_id]>>
                        ELSE <<>>
        IN  /\ pc = "idle"
            /\ posts < MaxPosts
            /\ memory' = r.memory
            /\ analytics' = r.analytics
            /\ posts' = posts + Len(r.posted)
            /\ last_call' = Call("/chat", request, outcome, FALSE,
                                 r.response)
            /\ appended' = IF r.posted = <<>> THEN appended
                           ELSE appended \o <<sent>> \o answered
            /\ UNCHANGED <<pc, frame, tasks, running>>

NextHttp == PostChat \/ GetStats \/ ResetSession

SpecHttp == Init /\ [][NextHttp]_vars

(* The API under the event loop: the handlers are coroutines, the loop
   runs one of them at a time, and a running coroutine gives the loop
   back only where it awaits or returns.  The chat handlers are taken one
   statement of engine.chat a step. *)

HTTP_UNAVAILABLE == 503

\* voice_module and the libraries it imports are installed
VOICE_AVAILABLE == TRUE

ChatEndpoints == {"/chat", "/voice/chat"}
MutatingEndpoints == ChatEndpoints \cup {"/assess-level", "/reset"}
ApiEndpoints == MutatingEndpoints \cup {"/voice/speech-to-text"}

ApiMessages == {<<"h", "i">>, <<" ">>}
ApiChatOutcomes ==
    {Outcome("response", HTTP_OK, <<"o", "k">>),
     Outcome("response", HTTP_OK, CORRECTED \o <<"x">>)}
ApiAssessOutcomes == {Outcome("response", HTTP_OK, Beginner)}

\* mutant: the POST to the model server is awaited
AwaitsThePost(endpoint, line) ==
    \/ endpoint = "/voice/speech-to-text" /\ line = "main.py:199"
    \/ endpoint \in ChatEndpoints /\ line = "ai_engine.py:110"

\* the statements of the handlers that hold an await: the only one is
\* audio_data = await audio_file.read() in speech_to_text
Awaits(endpoint, line) ==
    endpoint = "/voice/speech-to-text" /\ line = "main.py:199"

\* the handler of request t is at line, and the loop is executing it
At(t, endpoints, line) ==
    /\ running = t
    /\ tasks[t].state = "running"
    /\ tasks[t].endpoint \in endpoints
    /\ tasks[t].pc = line

\* tasks once the handler of t has moved to line; once it has returned
Goto(t, line) == [tasks EXCEPT ![t].pc = line]
Returned(t, response) ==
    [tasks EXCEPT ![t].state = "done", ![t].pc = "",
                  ![t].response = response]

\* the server has read a request and made a task of its handler
ApiAccept ==
    \E t \in RequestIds, endpoint \in ApiEndpoints, message \in ApiMessages :
        /\ tasks[t].state = "absent"
        /\ \A u \in 1..(t - 1) : tasks[u].state # "absent"
        /\ endpoint \in {"/reset", "/voice/speech-to-text"}
               => message = <<" ">>
        /\ tasks' = [tasks EXCEPT ![t] =
                [NoTask EXCEPT
                    !.state = "ready", !.endpoint = endpoint,
                    !.pc = "entry",
                    !.frame = [NoFrame EXCEPT !.user_message = message]]]
        /\ UNCHANGED <<memory, analytics, posts, last_call, appended, pc,
                       frame, running>>

\* the loop, executing nothing, starts a handler
LoopDispatch ==
    \E t \in RequestIds :
        /\ running = 0
        /\ tasks[t].state = "ready"
        /\ tasks' = [tasks EXCEPT ![t].state = "running"]
        /\ running' = t
        /\ UNCHANGED <<memory, analytics, posts, last_call, appended, pc,
                       frame>>

\* the running handler awaits: the loop has it back
LoopSuspend ==
    \E t \in RequestIds :
        /\ running = t
        /\ tasks[t].state = "running"
        /\ Awaits(tasks[t].endpoint, tasks[t].pc)
        /\ tasks' = [tasks EXCEPT ![t].state = "suspended"]
        /\ running' = 0
        /\ UNCHANGED <<memory, analytics, posts, last_call, appended, pc,
                       frame>>

\* the loop, executing nothing, goes on with a handler that awaited
LoopResume ==
    \E t \in RequestIds :
        /\ running = 0
        /\ tasks[t].state = "suspended"
        /\ tasks' = [tasks EXCEPT ![t].state = "running"]
        /\ running' = t
        /\ UNCHANGED <<memory, analytics, posts, last_call, appended, pc,
                       frame>>

\* main.py 118-139: the handler of POST /assess-level
ApiAssessLevel ==
    \E t \in RequestIds, outcome \in ApiAssessOutcomes :
        LET message == tasks[t].frame.user_message
            r == assess_level(memory, message, outcome)
        IN  /\ At(t, {"/assess-level"}, "entry")
            /\ running' = 0
            /\ IF strip(message) = <<>>
               THEN /\ tasks' = Returned(t,
                           HTTPException(HTTP_BAD_REQUEST,
                                         <<"Message cannot be empty">>))
                    /\ UNCHANGED <<memory, posts, last_call>>
               ELSE /\ memory' = r.memory
                    /\ posts' = posts + Len(r.posted)
                    /\ last_call' = Call("assess_level", message, outcome,
                                         r.raised, r.ret)
                    /\ tasks' = Returned(t,
                           IF r.raised
                           THEN HTTPException(HTTP_SERVER_ERROR,
                                    <<"Error assessing level: ">> \o r.ret)
                           ELSE HttpOk([level |-> r.ret]))
            /\ UNCHANGED <<analytics, appended, pc, frame>>

\* main.py 150-157: the handler of POST /reset
ApiReset ==
    \E t \in RequestIds :
        LET r == reset_session(memory, analytics)
        IN  /\ At(t, {"/reset"}, "entry")
            /\ running' = 0
            /\ memory' = r.memory
            /\ analytics' = r.analytics
            /\ last_call' = Call("reset_session", <<>>, NoOutcome, FALSE,
                                 r.ret)
            /\ appended' = <<>>
            /\ tasks' = Returned(t, HttpOk([message |-> r.ret,
                                            status |-> "success"]))
            /\ UNCHANGED <<posts, pc, frame>>

\* main.py 99-100 and 282-286: what the chat handlers check before they
\* call engine.chat
ApiChatEntry ==
    \E t \in RequestIds :
        /\ At(t, ChatEndpoints, "entry")
        /\ IF tasks[t].endpoint = "/voice/chat" /\ ~VOICE_AVAILABLE
           THEN /\ tasks' = Returned(t,
                       HTTPException(HTTP_UNAVAILABLE,
                                     <<"Voice features not available">>))
                /\ running' = 0
           ELSE IF strip(tasks[t].frame.user_message) = <<>>
           THEN /\ tasks' = Returned(t,
                       HTTPException(HTTP_BAD_REQUEST,
                                     <<"Message cannot be empty">>))
                /\ running' = 0
           ELSE /\ tasks' = Goto(t, "ai_engine.py:98")
                /\ UNCHANGED running
        /\ UNCHANGED <<memory, analytics, posts, last_call, appended, pc,
                       frame>>

\* ai_engine.py 98: self.analytics.log_message()
ApiChatLogMessage ==
    \E t \in RequestIds :
        /\ At(t, ChatEndpoints, "ai_engine.py:98")
        /\ analytics' = log_message(analytics)
        /\ tasks' = Goto(t, "ai_engine.py:101")
        /\ UNCHANGED <<memory, posts, last_call, appended, pc, frame,
                       running>>

\* ai_engine.py 101: self.memory.add_message("user", user_message)
ApiChatAddUser ==
    \E t \in RequestIds :
        /\ At(t, ChatEndpoints, "ai_engine.py:101")
        /\ memory' = add_message(memory, "user", tasks[t].frame.user_message)
        /\ appended' = Append(appended,
                              [role |-> "user",
                               message |-> tasks[t].frame.user_message])
        /\ tasks' = Goto(t, "ai_engine.py:104")
        /\ UNCHANGED <<analytics, posts, last_call, pc, frame, running>>

\* ai_engine.py 104: history = self.memory.get_history_string()
ApiChatGetHistory ==
    \E t \in RequestIds :
        /\ At(t, ChatEndpoints, "ai_engine.py:104")
        /\ tasks' = [tasks EXCEPT
                        ![t].pc = "ai_engine.py:107",
                        ![t].frame.history = get_history_string(memory)]
        /\ UNCHANGED <<memory, analytics, posts, last_call, appended, pc,
                       frame, running>>

\* ai_engine.py 107: prompt = create_conversation_prompt(...)
ApiChatCreatePrompt ==
    \E t \in RequestIds :
        /\ At(t, ChatEndpoints, "ai_engine.py:107")
        /\ tasks' = [tasks EXCEPT
                        ![t].pc = "ai_engine.py:110",
                        ![t].frame.prompt =
                            create_conversation_prompt(
                                tasks[t].frame.user_message,
                                tasks[t].frame.history)]
        /\ UNCHANGED <<memory, analytics, posts, last_call, appended, pc,
                       frame, running>>

\* ai_engine.py 110: ai_response = self.call_ollama(prompt); an exception
\* out of it would be caught at main.py 115
ApiChatCallOllama ==
    \E t \in RequestIds, outcome \in ApiChatOutcomes :
        LET call == call_ollama(outcome)
        IN  /\ At(t, ChatEndpoints, "ai_engine.py:110")
            /\ posts' = posts + 1
            /\ IF call.raised
               THEN /\ tasks' = Returned(t,
                           HTTPException(HTTP_SERVER_ERROR,
                               <<"Error processing message: ">>
                                   \o call.value))
                    /\ running' = 0
                    /\ last_call' = Call("chat",
                                         tasks[t].frame.user_message,
                                         outcome, TRUE, call.value)
               ELSE /\ tasks' = [tasks EXCEPT
                           ![t].pc = "ai_engine.py:113",
                           ![t].frame.outcome = outcome,
                           ![t].frame.ai_response = call.value]
                    /\ UNCHANGED <<running, last_call>>
            /\ UNCHANGED <<memory, analytics, appended, pc, frame>>

\* ai_engine.py 113: self.memory.add_message("assistant", ai_response)
ApiChatAddAssistant ==
    \E t \in RequestIds :
        /\ At(t, ChatEndpoints, "ai_engine.py:113")
        /\ memory' = add_message(memory, "assistant",
                                 tasks[t].frame.ai_response)
        /\ appended' = Append(appended,
                              [role |-> "assistant",
                               message |-> tasks[t].frame.ai_response])
        /\ tasks' = Goto(t, "ai_engine.py:116")
        /\ UNCHANGED <<analytics, posts, last_call, pc, frame, running>>

\* ai_engine.py 116-117: the correction heuristic and log_mistake
ApiChatDetectCorrection ==
    \E t \in RequestIds :
        /\ At(t, ChatEndpoints, "ai_engine.py:116")
        /\ analytics' =
              IF correction_detected(tasks[t].frame.ai_response)
              THEN log_mistake(analytics, tasks[t].frame.user_message,
                               tasks[t].frame.ai_response, <<"grammar">>)
              ELSE analytics
        /\ tasks' = Goto(t, "ai_engine.py:119")
        /\ UNCHANGED <<memory, posts, last_call, appended, pc, frame,
                       running>>

\* ai_engine.py 119: return ai_response, and what the handler makes of
\* it (main.py 104-113, 291-301)
ApiChatReturn ==
    \E t \in RequestIds :
        LET ai_response == tasks[t].frame.ai_response
        IN  /\ At(t, ChatEndpoints, "ai_engine.py:119")
            /\ last_call' = Call("chat", tasks[t].frame.user_message,
                                 tasks[t].frame.outcome, FALSE, ai_response)
            /\ tasks' = Returned(t,
                   IF tasks[t].endpoint = "/voice/chat"
                   THEN HttpOk([response |-> ai_response,
                                corrections_made |->
                                    correction_detected(ai_response),
                                message_count |->
                                    get_conversation_count(memory),
                                audio_available |-> TRUE,
                                note |-> "Use /voice/text-to-speech endpoint to get audio"])
                   ELSE HttpOk(ChatResponse(
                            ai_response, correction_detected(ai_response),
                            get_conversation_count(memory))))
            /\ running' = 0
            /\ UNCHANGED <<memory, analytics, posts, appended, pc, frame>>

\* main.py 192-193: speech_to_text checks that voice is available
ApiSpeechEntry ==
    \E t \in RequestIds :
        /\ At(t, {"/voice/speech-to-text"}, "entry")
        /\ IF ~VOICE_AVAILABLE
           THEN /\ tasks' = Returned(t,
                       HTTPException(HTTP_UNAVAILABLE,
                                     <<"Voice features not available">>))
                /\ running' = 0
           ELSE /\ tasks' = Goto(t, "main.py:199")
                /\ UNCHANGED running
        /\ UNCHANGED <<memory, analytics, posts, last_call, appended, pc,
                       frame>>

\* main.py 199: audio_data = await audio_file.read()
ApiSpeechRead ==
    \E t \in RequestIds :
        /\ At(t, {"/voice/speech-to-text"}, "main.py:199")
        /\ tasks' = Goto(t, "main.py:202")
        /\ UNCHANGED <<memory, analytics, posts, last_call, appended, pc,
                       frame, running>>

\* main.py 202-222: the audio is recognised or not, and the handler
\* returns
ApiSpeechRecognize ==
    \E t \in RequestIds,
       response \in {HttpOk([text |-> <<"h", "i">>, status |-> "success"]),
                     HTTPException(HTTP_BAD_REQUEST,
                                   <<"Could not understand audio">>)} :
        /\ At(t, {"/voice/speech-to-text"}, "main.py:202")
        /\ tasks' = Returned(t, response)
        /\ running' = 0
        /\ UNCHANGED <<memory, analytics, posts, last_call, appended, pc,
                       frame>>

NextApi ==
    \/ ApiAccept \/ LoopDispatch \/ LoopSuspend \/ LoopResume
    \/ ApiAssessLevel \/ ApiReset
    \/ ApiChatEntry \/ ApiChatLogMessage \/ ApiChatAddUser
    \/ ApiChatGetHistory \/ ApiChatCreatePrompt \/ ApiChatCallOllama
    \/ ApiChatAddAssistant \/ ApiChatDetectCorrection \/ ApiChatReturn
    \/ ApiSpeechEntry \/ ApiSpeechRead \/ ApiSpeechRecognize

SpecApi == Init /\ [][NextApi]_vars

---------------------------------------------------------------------------
(* Claims *)

\* C1 (SpecMemory): for every max_history >= 0, after any add_message and
\* clear_history calls the history holds at most 2 * max_history entries.
\* Fails for max_history = 0, where history[-0:] is the whole list.
C1_HistoryWithinCap ==
    Len(memory.history) <= 2 * memory.max_history

\* C1, for the positive max_history the slice works for: the cap holds.
C1_HistoryWithinCapPositive ==
    memory.max_history > 0 => Len(memory.history) <= 2 * memory.max_history

\* C2 (SpecMemory): after N > 2 * max_history add_message calls on a fresh
\* memory the history is exactly the last 2 * max_history appended
\* messages, in their order.  Fails for max_history = 0 as C1 does.
C2_KeepsMostRecent ==
    LET n == Len(appended)
        cap == 2 * memory.max_history
    IN  n > cap => memory.history = SubSeq(appended, n - cap + 1, n)

\* C2, for positive max_history: the most recent entries are kept.
C2_KeepsMostRecentPositive ==
    memory.max_history > 0 => C2_KeepsMostRecent

\* C7 (SpecAnalytics): in every state reachable by log_message,
\* log_mistake and reset_session, get_accuracy_rate lies in [0, 100].
\* Fails once more mistakes than messages are logged.
C7_AccuracyInRange ==
    /\ get_accuracy_rate(analytics) >= 0
    /\ get_accuracy_rate(analytics) <= 10000

Logged == {analytics.mistakes[i].category : i \in 1..Len(analytics.mistakes)}
TimesLogged(c) ==
    Cardinality({i \in 1..Len(analytics.mistakes) :
                    analytics.mistakes[i].category = c})
FirstLogged(c) ==
    CHOOSE i \in 1..Len(analytics.mistakes) :
        /\ analytics.mistakes[i].category = c
        /\ \A j \in 1..(i - 1) : analytics.mistakes[j].category # c
RanksBefore(c, d) ==
    \/ TimesLogged(c) > TimesLogged(d)
    \/ TimesLogged(c) = TimesLogged(d) /\ FirstLogged(c) < FirstLogged(d)

\* C9 (SpecAnalytics): get_common_mistakes(n) is the first n (or all, if
\* fewer) of the logged categories with their counts, ordered by count
\* descending and, among equal counts, by first occurrence; k "grammar"
\* and m < k "vocabulary" mistakes give get_common_mistakes(1) =
\* [("grammar", k)] in whatever order they were logged.
C9_CommonMistakes ==
    /\ \A n \in 0..MaxTopN :
          LET r == get_common_mistakes(analytics, n)
          IN  /\ Len(r) = Min(n, Cardinality(Logged))
              /\ \A i \in 1..Len(r) :
                    /\ r[i].category \in Logged
                    /\ r[i].count = TimesLogged(r[i].category)
                    /\ Cardinality({c \in Logged :
                           RanksBefore(c, r[i].category)}) = i - 1
    /\ ( /\ Logged \subseteq {<<"grammar">>, <<"vocabulary">>}
         /\ TimesLogged(<<"grammar">>) > TimesLogged(<<"vocabulary">>) )
       => get_common_mistakes(analytics, 1)
              = <<[category |-> <<"grammar">>,
                   count |-> TimesLogged(<<"grammar">>)]>>

\* C9 witness: "vocabulary" logged first and then "grammar" twice, so
\* that the sort has to move "grammar" to the front.
C9_Witness ==
    /\ Len(analytics.mistakes) = 3
    /\ analytics.mistakes[1].category = <<"vocabulary">>
    /\ analytics.mistakes[2].category = <<"grammar">>
    /\ analytics.mistakes[3].category = <<"grammar">>
    /\ get_common_mistakes(analytics, 1)
           = <<[category |-> <<"grammar">>, count |-> 2]>>

\* a step of the engine that is one whole call of chat, of assess_level
ChatStep == posts' # posts /\ last_call'.op = "chat"
AssessStep == posts' # posts /\ last_call'.op = "assess_level"

\* text holds the check mark, text holds "Corrected:"
HasCheckMark(text) == \E i \in 1..Len(text) : text[i] = "U+2705"
HasCorrectedColon(text) ==
    \E i \in 1..Len(text) :
        /\ i + 9 <= Len(text)
        /\ <<text[i], text[i + 1], text[i + 2], text[i + 3], text[i + 4],
             text[i + 5], text[i + 6], text[i + 7], text[i + 8],
             text[i + 9]>>
               = <<"C", "o", "r", "r", "e", "c", "t", "e", "d", ":">>

\* C3 (Spec): a chat call whose response holds the check mark or
\* "Corrected:" adds 1 to corrections_made and appends one mistake record
\* (category "grammar", original the user message, corrected the whole
\* response); a chat call whose response holds neither leaves
\* corrections_made, mistakes and mistake_categories as they were.
C3_CorrectionHeuristic ==
    [][ChatStep =>
          LET response == last_call'.ret
          IN  IF HasCheckMark(response) \/ HasCorrectedColon(response)
              THEN /\ analytics'.corrections_made
                          = analytics.corrections_made + 1
                   /\ analytics'.mistakes
                          = Append(analytics.mistakes,
                                   [original |-> last_call'.arg,
                                    corrected |-> response,
                                    category |-> <<"grammar">>])
              ELSE /\ analytics'.corrections_made
                          = analytics.corrections_made
                   /\ analytics'.mistakes = analytics.mistakes
                   /\ analytics'.mistake_categories
                          = analytics.mistake_categories
       ]_vars

\* C3 witness: two chat calls, the first answered without a marker, the
\* last with "Corrected:" and no check mark; one mistake is on record.
C3_Witness ==
    /\ last_call.op = "chat"
    /\ HasCorrectedColon(last_call.ret)
    /\ ~HasCheckMark(last_call.ret)
    /\ analytics.total_messages = 2
    /\ analytics.corrections_made = 1
    /\ Len(analytics.mistakes) = 1
    /\ analytics.mistakes[1].original = last_call.arg

\* the POST did not bring a 200 response
Failed(outcome) ==
    outcome.kind # "response" \/ outcome.status_code # 200

\* the first symbol of each text call_ollama returns for a failure
ErrorHeads ==
    {"Error: Ollama returned status code ",
     "Error: Cannot connect to Ollama. Make sure Ollama is running (ollama serve)",
     "Error: Request timed out. The model might be loading.",
     "Error: "}

\* C4 (Spec): a chat call whose POST fails (connection refused, timeout,
\* a status other than 200, any other exception) does not raise: it
\* returns an error text, having counted the message and appended the
\* user turn and the error text as the assistant turn, and it has POSTed
\* exactly once.
C4_FailureDegradesToText ==
    [][(ChatStep /\ Failed(last_call'.outcome)) =>
          LET ret == last_call'.ret
              n == Len(memory'.history)
          IN  /\ ~last_call'.raised
              /\ ret # <<>> /\ ret[1] \in ErrorHeads
              /\ analytics'.total_messages = analytics.total_messages + 1
              /\ n >= 2
              /\ memory'.history[n - 1]
                     = [role |-> "user", message |-> last_call'.arg]
              /\ memory'.history[n] = [role |-> "assistant", message |-> ret]
              /\ Len(memory.history) + 2 <= 2 * memory.max_history
                     => memory'.history
                            = memory.history
                                \o <<memory'.history[n - 1],
                                     memory'.history[n]>>
              /\ posts' = posts + 1
       ]_vars

\* C4 witness: a chat call whose POST ended in an exception other than
\* ConnectionError and Timeout, after an earlier exchange.
C4_Witness ==
    /\ last_call.op = "chat"
    /\ last_call.outcome.kind = "Exception"
    /\ ~last_call.raised
    /\ Len(memory.history) = 4
    /\ memory.history[4].message = <<"Error: ", "'response'">>
    /\ analytics.total_messages = 2
    /\ posts = 2

\* name occurs in text, letter case aside
OccursIn(name, text) ==
    \E i \in 0..(Len(text) - Len(name)) :
        \A k \in 1..Len(name) : LowerChar(text[i + k]) = LowerChar(name[k])

\* the text a POST that ended in outcome hands to assess_level
ResponseText(outcome) ==
    IF Failed(outcome) THEN call_ollama(outcome).value ELSE outcome.text

\* C5 (Spec): assess_level returns the first of Beginner, Intermediate,
\* Advanced (in that order) that occurs anywhere in the response, letter
\* case aside, and stores it as the level; if none occurs it returns
\* "Intermediate" and the stored level stays as it was.
C5_AssessLevel ==
    [][AssessStep =>
          LET text == ResponseText(last_call'.outcome)
              ret == last_call'.ret
          IN  /\ OccursIn(Beginner, text)
                     => ret = Beginner /\ memory'.user_level = Beginner
              /\ (~OccursIn(Beginner, text) /\ OccursIn(Intermediate, text))
                     => /\ ret = Intermediate
                        /\ memory'.user_level = Intermediate
              /\ ( /\ ~OccursIn(Beginner, text)
                   /\ ~OccursIn(Intermediate, text)
                   /\ OccursIn(Advanced, text) )
                     => ret = Advanced /\ memory'.user_level = Advanced
              /\ ( /\ ~OccursIn(Beginner, text)
                   /\ ~OccursIn(Intermediate, text)
                   /\ ~OccursIn(Advanced, text) )
                     => /\ ret = Intermediate
                        /\ memory'.user_level = memory.user_level
       ]_vars

\* C5 witness: the response names "advanced" before "beginner", both in
\* lower case; Beginner is returned and stored.
C5_Witness ==
    /\ last_call.op = "assess_level"
    /\ last_call.outcome.kind = "response"
    /\ OccursIn(Advanced, last_call.outcome.text)
    /\ OccursIn(Beginner, last_call.outcome.text)
    /\ ~Contains(last_call.outcome.text, Beginner)
    /\ last_call.ret = Beginner
    /\ memory.user_level = Beginner

CountsMessage == analytics'.total_messages = analytics.total_messages + 1
AppendsTurn(role, message) ==
    /\ memory'.history # memory.history
    /\ memory'.history
           = memory.history \o <<[role |-> role, message |-> message]>>
Posts == posts' = posts + 1
LogsMistake == Len(analytics'.mistakes) = Len(analytics.mistakes) + 1
InChat == pc # "idle" \/ pc' # "idle"

\* C10 (SpecSteps): a chat call goes through its statements in the order
\* of the source, one at a time, and within it total_messages is
\* incremented first, then the user turn is appended, then the prompt is
\* built and POSTed, then the assistant turn is appended, and a mistake is
\* logged only after that; the message is counted in no later step of the
\* call, so once per call and before any log_mistake of it.
C10_ChatOrder ==
    [][InChat =>
          /\ <<pc, pc'>> \in {<<"idle", "L101">>, <<"L101", "L104">>,
                              <<"L104", "L107">>, <<"L107", "L110">>,
                              <<"L110", "L113">>, <<"L113", "L116">>,
                              <<"L116", "L119">>, <<"L119", "idle">>}
          /\ CountsMessage <=> pc = "idle"
          /\ pc # "idle" => analytics'.total_messages
                                = analytics.total_messages
          /\ AppendsTurn("user", frame'.user_message) <=> pc = "L101"
          /\ pc = "L107" =>
                frame'.prompt
                    = create_conversation_prompt(frame.user_message,
                                                 get_history_string(memory))
          /\ Posts <=> pc = "L110"
          /\ AppendsTurn("assistant", frame.ai_response) <=> pc = "L113"
          /\ memory' # memory => pc \in {"L101", "L113"}
          /\ LogsMistake => pc = "L116"
          /\ analytics'.mistakes # analytics.mistakes => LogsMistake
       ]_vars

\* C10 witness: a chat call about to return, its message counted, both
\* turns appended, one POST made and a mistake logged.
C10_Witness ==
    /\ pc = "L119"
    /\ analytics.total_messages = 1
    /\ Len(memory.history) = 2
    /\ memory.history[1] = [role |-> "user", message |-> frame.user_message]
    /\ memory.history[2]
           = [role |-> "assistant", message |-> frame.ai_response]
    /\ posts = 1
    /\ Len(analytics.mistakes) = 1

\* C11 (Spec): reset_session, and the clear_history it calls, leave the
\* stored level as it was: get_user_level and get_stats give after the
\* reset the level they gave before it.
C11_ResetKeepsLevel ==
    [][last_call'.op = "reset_session" =>
          /\ get_user_level(memory') = get_user_level(memory)
          /\ get_stats(memory', analytics').user_level
                 = get_stats(memory, analytics).user_level
          /\ get_user_level(clear_history(memory)) = get_user_level(memory)
       ]_vars

\* C11 witness: a reset has emptied the history of a session whose level
\* assess_level had set to Intermediate; the level is still stored.
C11_Witness ==
    /\ last_call.op = "reset_session"
    /\ posts = 2
    /\ memory.history = <<>>
    /\ get_user_level(memory) = Intermediate
    /\ get_stats(memory, analytics).user_level = Intermediate

\* C12 as claimed (Spec): the stored level is always Beginner,
\* Intermediate or None, and changes only in an assess_level call.
\* Fails: assess_level stores Advanced too.
C12_LevelBeginnerOrIntermediate ==
    /\ [](memory.user_level \in {Beginner, Intermediate, NONE})
    /\ [][memory'.user_level # memory.user_level => AssessStep]_vars

\* C12 amended (Spec): the stored level is always Beginner, Intermediate,
\* Advanced or None, and changes only in an assess_level call.
C12_LevelValidOrNone ==
    /\ [](memory.user_level \in {Beginner, Intermediate, Advanced, NONE})
    /\ [][memory'.user_level # memory.user_level => AssessStep]_vars

\* C12 witness: an assess_level call answered "ADVANCED" has stored
\* Advanced.
C12_Witness ==
    /\ last_call.op = "assess_level"
    /\ last_call.ret = Advanced
    /\ memory.user_level = Advanced
    /\ ~Contains(last_call.outcome.text, Advanced)

\* C13 as claimed (Spec): a chat call whose user message holds neither
\* marker leaves the mistake count as it was, whatever the model answers.
\* Fails: the markers are looked for in the answer, so "hi" answered
\* "**Corrected:**" is logged.
C13_NoMarkerInUserMessage ==
    [][(/\ ChatStep
        /\ ~HasCheckMark(last_call'.arg)
        /\ ~HasCorrectedColon(last_call'.arg))
          => /\ Len(analytics'.mistakes) = Len(analytics.mistakes)
             /\ analytics'.corrections_made = analytics.corrections_made
       ]_vars

\* C13 amended (Spec): a chat call whose model response holds neither
\* marker leaves the mistake count as it was, whatever the user message
\* holds.
C13_NoMarkerInResponse ==
    [][(/\ ChatStep
        /\ ~HasCheckMark(last_call'.ret)
        /\ ~HasCorrectedColon(last_call'.ret))
          => /\ Len(analytics'.mistakes) = Len(analytics.mistakes)
             /\ analytics'.corrections_made = analytics.corrections_made
       ]_vars

\* C13 witness: a user message holding "Corrected:" was answered without
\* a marker, and no mistake is on record.
C13_Witness ==
    /\ last_call.op = "chat"
    /\ HasCorrectedColon(last_call.arg)
    /\ ~HasCheckMark(last_call.ret)
    /\ ~HasCorrectedColon(last_call.ret)
    /\ analytics.total_messages = 1
    /\ analytics.mistakes = <<>>

\* "<DisplayName>: <text>" for one turn
DisplayName(role) == IF role = "user" THEN "User" ELSE "BhashaVox AI"
Rendered(msg) == <<DisplayName(msg.role), ":", " ">> \o msg.message

\* the first n turns of h rendered and joined by newlines; the same with
\* a newline after every turn
RECURSIVE JoinedByNewlines(_, _)
JoinedByNewlines(h, n) ==
    IF n = 0 THEN <<>>
    ELSE IF n = 1 THEN Rendered(h[1])
    ELSE JoinedByNewlines(h, n - 1) \o <<"\n">> \o Rendered(h[n])

RECURSIVE EndedByNewlines(_, _)
EndedByNewlines(h, n) ==
    IF n = 0 THEN <<>>
    ELSE EndedByNewlines(h, n - 1) \o Rendered(h[n]) \o <<"\n">>

\* C14 as claimed (SpecMemory): get_history_string gives the empty string
\* for an empty history and otherwise the turns, oldest first, each as
\* "<DisplayName>: <text>", joined by newlines.  Fails: the code ends
\* every turn, the last one too, with a newline.
C14_HistoryStringJoined ==
    get_history_string(memory)
        = JoinedByNewlines(memory.history, Len(memory.history))

\* C14 amended (SpecMemory): get_history_string gives the empty string
\* for an empty history and otherwise the turns, oldest first, each as
\* "<DisplayName>: <text>" followed by a newline; a user turn and then an
\* assistant turn give exactly their two lines in that order.
C14_HistoryStringLines ==
    /\ get_history_string(memory)
           = EndedByNewlines(memory.history, Len(memory.history))
    /\ memory.history = <<>> => get_history_string(memory) = <<>>
    /\ (/\ Len(memory.history) = 2
        /\ memory.history[1].role = "user"
        /\ memory.history[2].role = "assistant")
          => get_history_string(memory)
                 = <<"User", ":", " ">> \o memory.history[1].message
                       \o <<"\n">>
                       \o <<"BhashaVox AI", ":", " ">>
                       \o memory.history[2].message \o <<"\n">>

\* C14 witness: the history is the user turn "a" and then the assistant
\* turn "b", and its rendering is the two lines in that order.
C14_Witness ==
    /\ memory.history = <<[role |-> "user", message |-> <<"a">>],
                          [role |-> "assistant", message |-> <<"b">>]>>
    /\ get_history_string(memory)
           = <<"User", ":", " ", "a", "\n",
               "BhashaVox AI", ":", " ", "b", "\n">>

\* the sum of the counts of the first n entries of a category table
RECURSIVE SumOfCounts(_, _)
SumOfCounts(d, n) ==
    IF n = 0 THEN 0 ELSE SumOfCounts(d, n - 1) + d[n].count

\* C16 (SpecAnalytics): corrections_made is the number of mistake
\* records and the sum of the per-category counts, and every category
\* that has an entry has a count of at least 1.
C16_CountsAgree ==
    /\ analytics.corrections_made = Len(analytics.mistakes)
    /\ analytics.corrections_made
           = SumOfCounts(analytics.mistake_categories,
                         Len(analytics.mistake_categories))
    /\ \A i \in 1..Len(analytics.mistake_categories) :
           /\ analytics.mistake_categories[i].count >= 1
           /\ analytics.mistake_categories[i].count
                  = Cardinality({k \in 1..Len(analytics.mistakes) :
                        analytics.mistakes[k].category
                            = analytics.mistake_categories[i].category})

\* C16 witness: three mistakes in two categories, two of them in the
\* first, and one message counted.
C16_Witness ==
    /\ analytics.corrections_made = 3
    /\ Len(analytics.mistake_categories) = 2
    /\ analytics.mistake_categories[1].count = 2
    /\ analytics.total_messages = 1

\* the chat calls since the last reset_session: appended holds one user
\* turn for each of them
ChatsSinceReset == Cardinality({i \in 1..Len(appended) :
                                    appended[i].role = "user"})

\* C17 (Spec): total_messages is the number of chat calls since the
\* last reset_session, the mistake records are at most that many, and
\* the accuracy_rate of get_stats is between 0 and 100.
C17_MessagesBoundMistakes ==
    /\ analytics.total_messages = ChatsSinceReset
    /\ Len(analytics.mistakes) <= analytics.total_messages
    /\ get_stats(memory, analytics).accuracy_rate >= 0
    /\ get_stats(memory, analytics).accuracy_rate <= 10000
    /\ last_call.op = "get_stats" =>
           /\ last_call.ret.accuracy_rate >= 0
           /\ last_call.ret.accuracy_rate <= 10000
           /\ last_call.ret.total_messages = ChatsSinceReset

\* C17 witness: get_stats after three POSTs, two of them chat calls since
\* the last reset and one of these corrected, reports two messages and an
\* accuracy of 50.
C17_Witness ==
    /\ last_call.op = "get_stats"
    /\ posts = 3
    /\ ChatsSinceReset = 2
    /\ last_call.ret.total_messages = 2
    /\ last_call.ret.corrections_made = 1
    /\ last_call.ret.accuracy_rate = 5000

\* text ends with tail; the places where pattern occurs in text
EndsWith(text, tail) ==
    /\ Len(tail) <= Len(text)
    /\ SubSeq(text, Len(text) - Len(tail) + 1, Len(text)) = tail
Occurrences(text, pattern) ==
    {i \in 1..Len(text) :
        /\ i + Len(pattern) - 1 <= Len(text)
        /\ SubSeq(text, i, i + Len(pattern) - 1) = pattern}

\* C19 (SpecSteps): the history a chat call renders for its prompt
\* already ends with the call's own user turn, so the prompt built from
\* it holds the user message twice: as the last line of the
\* previous-conversation block and, right after the block, as the new
\* message line that ends the prompt.
C19_PromptHoldsMessageTwice ==
    LET turn == <<"User", ":", " ">> \o frame.user_message
    IN  /\ pc \in {"L107", "L110", "L113", "L116", "L119"} =>
               EndsWith(frame.history, turn \o <<"\n">>)
        /\ pc \in {"L110", "L113", "L116", "L119"} =>
               /\ Cardinality(Occurrences(frame.prompt,
                                          <<"Previous conversation:">>)) = 1
               /\ EndsWith(frame.prompt,
                           turn \o <<"\n">> \o <<"\n", "\n">>
                               \o turn \o <<"\n", "\n", "BhashaVox AI:">>)
               /\ Cardinality(Occurrences(frame.prompt, turn)) >= 2

\* C19 witness: the prompt of the first chat call of a session, about to
\* be POSTed: the block holds nothing but this call's user turn, and the
\* message occurs exactly twice.
C19_Witness ==
    /\ pc = "L110"
    /\ Len(memory.history) = 1
    /\ frame.prompt
           = SYSTEM_PROMPT \o <<"\n", "\n">>
                 \o <<"Previous conversation:", "\n">>
                 \o <<"User", ":", " ">> \o frame.user_message
                 \o <<"\n">> \o <<"\n", "\n">>
                 \o <<"User", ":", " ">> \o frame.user_message
                 \o <<"\n", "\n", "BhashaVox AI:">>
    /\ Cardinality(Occurrences(frame.prompt, frame.user_message)) = 2

\* C18 (SpecLong): after a completed chat call the history has even
\* length, alternates user, assistant from a user turn on, and ends with
\* the call's user message and the text the call returned; the
\* conversation_turns of get_stats and the count that /chat reports as
\* message_count are the smaller of the chat calls since the last reset
\* and max_history, while total_messages is the number of those calls.
C18_HistoryAfterChat ==
    LET h == memory.history
        n == Len(h)
        turns == IF ChatsSinceReset < memory.max_history
                 THEN ChatsSinceReset ELSE memory.max_history
    IN  /\ last_call.op = "chat" =>
               /\ n >= 2
               /\ n % 2 = 0
               /\ \A i \in 1..n :
                      h[i].role = IF i % 2 = 1 THEN "user" ELSE "assistant"
               /\ h[n - 1] = [role |-> "user", message |-> last_call.arg]
               /\ h[n] = [role |-> "assistant", message |-> last_call.ret]
               /\ get_conversation_count(memory) = turns
               /\ get_stats(memory, analytics).conversation_turns = turns
               /\ analytics.total_messages = ChatsSinceReset
        /\ last_call.op = "get_stats" =>
               /\ last_call.ret.conversation_turns = turns
               /\ last_call.ret.total_messages = ChatsSinceReset

\* C18 witness: the twelfth chat call of a session has returned: twelve
\* messages counted, ten turns reported, twenty entries in the history.
C18_Witness ==
    /\ last_call.op = "chat"
    /\ memory.max_history = 10
    /\ ChatsSinceReset = 12
    /\ analytics.total_messages = 12
    /\ get_conversation_count(memory) = 10
    /\ get_stats(memory, analytics).conversation_turns = 10
    /\ Len(memory.history) = 20

\* C20 (SpecHttp): the session_id of a /chat request has no effect: the
\* same request under any other session_id would have left the engine
\* in the same state with the same response, and the message_count of
\* the response counts the turns sent under every session_id alike.
C20_SessionIdIgnored ==
    [][last_call'.op = "/chat" =>
          /\ \A session_id \in SessionIds :
                 LET r == post_chat(memory, analytics,
                                    ChatRequest(last_call'.arg.message,
                                                session_id),
                                    last_call'.outcome)
                 IN  /\ r.memory = memory'
                     /\ r.analytics = analytics'
                     /\ r.response = last_call'.ret
                     /\ get_stats(r.memory, r.analytics)
                            = get_stats(memory', analytics')
          /\ last_call'.ret.status_code = HTTP_OK =>
                 /\ last_call'.ret.body.message_count
                        = Cardinality({i \in 1..Len(appended') :
                                          appended'[i].role = "user"})
                 /\ Len(memory'.history) = Len(appended')
                 /\ \A i \in 1..Len(appended') :
                        memory'.history[i].message = appended'[i].message
       ]_vars

\* C20 witness: a turn sent under "default" and then a turn sent under
\* "learner-2": the second response counts both, and the history and the
\* stats hold both.
C20_Witness ==
    /\ last_call.op = "/chat"
    /\ last_call.arg.session_id = <<"learner-2">>
    /\ Len(appended) = 4
    /\ appended[1].session_id = <<"default">>
    /\ appended[3].session_id = <<"learner-2">>
    /\ last_call.ret.status_code = HTTP_OK
    /\ last_call.ret.body.message_count = 2
    /\ memory.history[1].message = appended[1].message
    /\ get_stats(memory, analytics).total_messages = 2
    /\ get_stats(memory, analytics).conversation_turns = 2

\* request t has a handler that has started and not returned; the
\* handler uses the engine; it is a chat handler between two statements
\* of engine.chat
InHandler(t) == tasks[t].state \in {"running", "suspended"}
Mutating(t) == tasks[t].endpoint \in MutatingEndpoints
MidChat(t) ==
    /\ InHandler(t)
    /\ tasks[t].endpoint \in ChatEndpoints
    /\ tasks[t].pc \in {"ai_engine.py:101", "ai_engine.py:104",
                        "ai_engine.py:107", "ai_engine.py:110",
                        "ai_engine.py:113", "ai_engine.py:116",
                        "ai_engine.py:119"}

\* C15 (SpecApi): the handlers of /chat, /voice/chat, /assess-level and
\* /reset run one after the other, each to its return before the next
\* starts: no two of them are ever both started and not returned, and
\* no step changes the history or the analytics between two statements
\* of a chat call other than that call's own step.
C15_HandlersRunToCompletion ==
    /\ [](\A t \in RequestIds, u \in RequestIds :
              (t # u /\ Mutating(t) /\ Mutating(u))
                  => ~(InHandler(t) /\ InHandler(u)))
    /\ [][(memory' # memory \/ analytics' # analytics) =>
              \A u \in RequestIds :
                  MidChat(u) => tasks'[u] # tasks[u]]_vars

\* C15 witness: a /chat handler has POSTed and is about to append the
\* answer, while a /reset request, accepted meanwhile, waits for the loop.
C15_Witness ==
    /\ tasks[1].endpoint = "/chat"
    /\ tasks[1].state = "running"
    /\ tasks[1].pc = "ai_engine.py:113"
    /\ running = 1
    /\ tasks[2].endpoint = "/reset"
    /\ tasks[2].state = "ready"
    /\ Len(memory.history) = 1

====
